---- MODULE Spec2Model ----
(***************************************************************************)
(* Model of the streaming market-data client of TT-vol-workflows           *)
(* (src/websocket_streamer.py): MarketDataWebSocket, the stateless         *)
(* on_message dispatcher, the per-symbol received flags, and the decoder   *)
(* MarketDataProcessor.parse_market_data that runs after the connection    *)
(* has ended; of the join of the decoded quotes onto the inventory         *)
(* (merge_data to calculate_mid_prices); and of the risk pass of           *)
(* src/risk_fx.py (OptionDataProcessor.process).                           *)
(***************************************************************************)
EXTENDS Integers, Sequences, FiniteSets, TLC

\* ------------------------------------------------------------------------
\* Bounds of the model
\* ------------------------------------------------------------------------
MaxSymbols == 2   \* longest list handed to set_symbols_to_track
MaxMsgs    == 4   \* inbound messages handled within one connection
MaxBatches == 2   \* FEED_DATA messages accepted on the owned channel
MaxRecords == 1   \* full six-field records in one batch
MaxRows    == 2   \* positions in the inventory handed to the risk pass

\* ------------------------------------------------------------------------
\* Program constants
\* ------------------------------------------------------------------------
channel_number == 3   \* MarketDataProcessor.__init__
Stride == 6           \* step of both range(.., len(market_data), 6) loops

Symbols  == {"A", "B"}
Channels == {channel_number, 1}
token    == "tok"

\* ------------------------------------------------------------------------
\* Python dict with insertion order: a sequence of [symbol, received]
\* entries with pairwise distinct symbols.
\* ------------------------------------------------------------------------
DictHas(d, k) == \E i \in 1..Len(d) : d[i].symbol = k

DictSet(d, k, v) ==
    IF DictHas(d, k)
    THEN [i \in 1..Len(d) |-> IF d[i].symbol = k
                              THEN [symbol |-> k, received |-> v]
                              ELSE d[i]]
    ELSE Append(d, [symbol |-> k, received |-> v])

DictKeys(d)   == [i \in 1..Len(d) |-> d[i].symbol]
DictValues(d) == [i \in 1..Len(d) |-> d[i].received]

\* {symbol: False for symbol in symbols}
RECURSIVE DictComprehension(_, _)
DictComprehension(d, symbols) ==
    IF symbols = <<>> THEN d
    ELSE DictComprehension(DictSet(d, Head(symbols), FALSE), Tail(symbols))

\* Python's all() over a list of booleans
All(values) == \A i \in 1..Len(values) : values[i]

\* all() replaced by any(): the mutant of check_all_data_received
check_all_data_received_any(d) == \E i \in 1..Len(DictValues(d)) : DictValues(d)[i]

check_all_data_received(d) == All(DictValues(d))

\* ------------------------------------------------------------------------
\* Inbound data: FEED_DATA payloads (JSON arrays) and messages
\* ------------------------------------------------------------------------
At(list, i) == list[i + 1]   \* zero-based indexing of the source

Bids == {"1"}
QuoteRecord(sym, bid) == <<"Quote", sym, bid, "9", "5", "5">>
Records == {QuoteRecord(s, b) : s \in Symbols, b \in Bids}

RECURSIVE FullBatches(_)
FullBatches(n) ==
    IF n = 0 THEN {<<>>}
    ELSE LET prev == FullBatches(n - 1)
         IN  prev \cup {p \o r : p \in {q \in prev : Len(q) = Stride * (n - 1)},
                                 r \in Records}

\* a truncated batch ends in the first two fields of a record
PartialTails == {<<>>} \cup {<<"Quote", s>> : s \in Symbols}

MarketDataLists == {f \o t : f \in FullBatches(MaxRecords), t \in PartialTails}

FeedTypes == {"Quote", "Trade"}

\* well-formed payloads are (feed_type, market_data) pairs; <<"Quote">> is
\* a payload that does not unpack into two items
Payloads == {<<ft, md>> : ft \in FeedTypes, md \in MarketDataLists}
            \cup {<<"Quote">>}

\* payloads of the FEED_DATA messages of a channel this session does not
\* own: on_message never reads them, so three of them stand for all
ForeignPayloads ==
    {<<"Quote", QuoteRecord("A", "1") \o <<"Quote", "B">> >>,
     <<"Trade", QuoteRecord("B", "1")>>,
     <<"Quote">>}

NoData == <<>>
Msg(t, s, c, d) == [type |-> t, state |-> s, channel |-> c, data |-> d]

NoMsg == Msg("None", "None", 0, NoData)

InboundMsgs ==
    {Msg("AUTH_STATE", s, 0, NoData) :
        s \in {"UNAUTHORIZED", "AUTHORIZED", "EXPIRED"}}
    \cup {Msg(t, "None", c, NoData) :
            t \in {"CHANNEL_OPENED", "FEED_CONFIG"}, c \in Channels}
    \cup {Msg("KEEPALIVE", "None", 0, NoData)}
    \cup {Msg("FEED_DATA", "None", channel_number, p) : p \in Payloads}
    \cup {Msg("FEED_DATA", "None", c, p) :
            c \in Channels \ {channel_number}, p \in ForeignPayloads}

RECURSIVE SymbolLists(_)
SymbolLists(n) ==
    IF n = 0 THEN {<<>>}
    ELSE LET prev == SymbolLists(n - 1)
         IN  prev \cup {Append(p, s) : p \in {q \in prev : Len(q) = n - 1},
                                       s \in Symbols}

\* ------------------------------------------------------------------------
\* Outbound messages
\* ------------------------------------------------------------------------
Out(t, c, r, a) ==
    [type |-> t, channel |-> c, reset |-> r, add |-> a,
     token |-> IF t = "AUTH" THEN token ELSE "None"]

SetupMsg          == Out("SETUP", 0, FALSE, <<>>)
AuthMsg           == Out("AUTH", 0, FALSE, <<>>)
ChannelRequestMsg == Out("CHANNEL_REQUEST", channel_number, FALSE, <<>>)
FeedSetupMsg      == Out("FEED_SETUP", channel_number, FALSE, <<>>)

\* the subscription sent without "reset": True
FeedSubscriptionMsg_Additive(d) ==
    Out("FEED_SUBSCRIPTION", channel_number, FALSE,
        [i \in 1..Len(DictKeys(d)) |-> [type |-> "Quote", symbol |-> DictKeys(d)[i]]])

\* "add": [{"type": "Quote", "symbol": symbol} for symbol in symbols_to_track]
FeedSubscriptionMsg(d) ==
    Out("FEED_SUBSCRIPTION", channel_number, TRUE,
        [i \in 1..Len(DictKeys(d)) |-> [type |-> "Quote", symbol |-> DictKeys(d)[i]]])

\* ------------------------------------------------------------------------
\* State
\* ------------------------------------------------------------------------
VARIABLES
    pc,                \* position of process_market_data / the connection
    symbols,           \* local `symbols` of process_market_data
    symbols_to_track,  \* MarketDataWebSocket.symbols_to_track
    received_data,     \* MarketDataWebSocket.received_data
    sent,              \* every ws.send of the connection, in order
    close_called,      \* ws.close() has been called by on_message
    last_msg,          \* argument of the latest on_message call
    nmsgs,             \* number of on_message calls so far
    df_parsed,         \* result of parse_market_data after connect returns
    parsed_data,       \* local list `parsed_data` of parse_market_data
    self_df,           \* OptionDataProcessor.df
    original_df,       \* local `original_df` of OptionDataProcessor.process
    summary_df         \* local `summary_df` of OptionDataProcessor.process

risk_vars == <<self_df, original_df, summary_df>>

stream_vars == <<symbols, symbols_to_track, received_data, sent, close_called,
                 last_msg, nmsgs, df_parsed, parsed_data>>

vars == <<pc, symbols, symbols_to_track, received_data, sent, close_called,
          last_msg, nmsgs, df_parsed, parsed_data, self_df, original_df,
          summary_df>>

\* ------------------------------------------------------------------------
\* The tracking loop of on_message:
\*   for i in range(1, len(market_data), 6): ... symbols_to_track[symbol] = True
\* ------------------------------------------------------------------------
\* the loop without `if symbol in self.symbols_to_track`
RECURSIVE MarkLoop_NoMembershipTest(_, _, _)
MarkLoop_NoMembershipTest(d, market_data, i) ==
    IF i >= Len(market_data) THEN d
    ELSE MarkLoop_NoMembershipTest(DictSet(d, At(market_data, i), TRUE),
                                   market_data, i + Stride)

\* the tracking loop clearing the flag of a symbol reported once more
RECURSIVE MarkLoop_Toggles(_, _, _)
MarkLoop_Toggles(d, market_data, i) ==
    IF i >= Len(market_data) THEN d
    ELSE LET symbol == At(market_data, i)
             was == \E k \in 1..Len(d) : d[k].symbol = symbol /\ d[k].received
             d2 == IF DictHas(d, symbol) THEN DictSet(d, symbol, ~was) ELSE d
         IN  MarkLoop_Toggles(d2, market_data, i + Stride)

RECURSIVE MarkLoop(_, _, _)
MarkLoop(d, market_data, i) ==
    IF i >= Len(market_data) THEN d
    ELSE LET symbol == At(market_data, i)
             d2 == IF DictHas(d, symbol) THEN DictSet(d, symbol, TRUE) ELSE d
         IN  MarkLoop(d2, market_data, i + Stride)

\* ------------------------------------------------------------------------
\* parse_market_data
\* ------------------------------------------------------------------------
\* `feed_type, market_data = item` raises ValueError unless item has 2 items
Unpacks(item) == Len(item) = 2

ParseRaises(data) == \E k \in 1..Len(data) : ~Unpacks(data[k])

\* the stride loop with the bound test `i + 6 < len(market_data)`
RECURSIVE RowsOfItem_OffByOne(_, _, _)
RowsOfItem_OffByOne(feed_type, market_data, i) ==
    IF i >= Len(market_data) THEN <<>>
    ELSE (IF i + 6 < Len(market_data)
          THEN << <<feed_type, At(market_data, i), At(market_data, i + 1),
                    At(market_data, i + 2), At(market_data, i + 3),
                    At(market_data, i + 4), At(market_data, i + 5)>> >>
          ELSE <<>>)
         \o RowsOfItem_OffByOne(feed_type, market_data, i + Stride)

RECURSIVE RowsOfItem(_, _, _)
RowsOfItem(feed_type, market_data, i) ==
    IF i >= Len(market_data) THEN <<>>
    ELSE (IF i + 5 < Len(market_data)
          THEN << <<feed_type, At(market_data, i), At(market_data, i + 1),
                    At(market_data, i + 2), At(market_data, i + 3),
                    At(market_data, i + 4), At(market_data, i + 5)>> >>
          ELSE <<>>)
         \o RowsOfItem(feed_type, market_data, i + Stride)

RECURSIVE ParsedRows(_)
ParsedRows(data) ==
    IF data = <<>> THEN <<>>
    ELSE RowsOfItem(Head(data)[1], Head(data)[2], 0) \o ParsedRows(Tail(data))

\* column 'streamer-symbol' of a parsed row
StreamerSymbol(row) == row[3]

\* drop_duplicates with keep='first'
DropDuplicatesLast_KeepFirst(rows) ==
    SelectSeq([k \in 1..Len(rows) |-> [row |-> rows[k], idx |-> k]],
              LAMBDA e : ~\E j \in 1..(e.idx - 1) :
                            StreamerSymbol(rows[j]) = StreamerSymbol(e.row))

\* DataFrame.drop_duplicates(subset='streamer-symbol', keep='last')
DropDuplicatesLast(rows) ==
    SelectSeq([k \in 1..Len(rows) |-> [row |-> rows[k], idx |-> k]],
              LAMBDA e : ~\E j \in (e.idx + 1)..Len(rows) :
                            StreamerSymbol(rows[j]) = StreamerSymbol(e.row))

\* parse_market_data without the final drop_duplicates
parse_market_data_KeepAll(data) == ParsedRows(data)

parse_market_data(data) ==
    LET kept == DropDuplicatesLast(ParsedRows(data))
    IN  [k \in 1..Len(kept) |-> kept[k].row]

\* ------------------------------------------------------------------------
\* Initial state: MarketDataWebSocket.__init__
\* ------------------------------------------------------------------------
Init ==
    /\ pc = "new"
    /\ symbols = <<>>
    /\ symbols_to_track = <<>>
    /\ received_data = <<>>
    /\ sent = <<>>
    /\ close_called = FALSE
    /\ last_msg = NoMsg
    /\ nmsgs = 0
    /\ df_parsed = <<>>
    /\ parsed_data = <<>>
    /\ self_df = <<>>
    /\ original_df = <<>>
    /\ summary_df = {}

\* ------------------------------------------------------------------------
\* Actions
\* ------------------------------------------------------------------------
\* process_market_data, lines 119-120
set_symbols_to_track ==
    /\ pc = "new"
    /\ \E syms \in SymbolLists(MaxSymbols) :
          /\ symbols' = syms
          /\ symbols_to_track' = DictComprehension(<<>>, syms)
    /\ pc' = "tracking"
    /\ UNCHANGED <<received_data, sent, close_called, last_msg, nmsgs, df_parsed, parsed_data>>
    /\ UNCHANGED risk_vars

\* connect() followed by the on_open callback
on_open ==
    /\ pc = "tracking"
    /\ sent' = Append(sent, SetupMsg)
    /\ pc' = "open"
    /\ UNCHANGED <<symbols, symbols_to_track, received_data, close_called,
                   last_msg, nmsgs, df_parsed, parsed_data>>
    /\ UNCHANGED risk_vars

\* the branch tests of on_message
IsUnauthorized(data)  == data.type = "AUTH_STATE" /\ data.state = "UNAUTHORIZED"
IsAuthorized(data)    == data.type = "AUTH_STATE" /\ data.state = "AUTHORIZED"
IsChannelOpened(data) == data.type = "CHANNEL_OPENED" /\ data.channel = channel_number
IsFeedConfig(data)    == data.type = "FEED_CONFIG" /\ data.channel = channel_number

\* the FEED_DATA test without the comparison of the channel
IsFeedData_AnyChannel(data) == data.type = "FEED_DATA"

IsFeedData(data) == data.type = "FEED_DATA" /\ data.channel = channel_number

\* the FEED_DATA branch with the completion check made before the flags
\* of the batch are set
FeedDataBranch_CheckFirst(data) ==
    LET feed_data == data.data IN
    /\ received_data' = Append(received_data, feed_data)
    /\ IF ~Unpacks(feed_data)
       THEN UNCHANGED <<symbols_to_track, close_called, pc>>
       ELSE LET feed_type   == feed_data[1]
                market_data == feed_data[2]
                tracked == IF feed_type = "Quote"
                           THEN MarkLoop(symbols_to_track, market_data, 1)
                           ELSE symbols_to_track
            IN  /\ symbols_to_track' = tracked
                /\ IF check_all_data_received(symbols_to_track)
                   THEN close_called' = TRUE /\ pc' = "closing"
                   ELSE UNCHANGED <<close_called, pc>>
    /\ UNCHANGED sent

\* the FEED_DATA branch closing after every batch that unpacks
FeedDataBranch_CloseAlways(data) ==
    LET feed_data == data.data IN
    /\ received_data' = Append(received_data, feed_data)
    /\ IF ~Unpacks(feed_data)
       THEN UNCHANGED <<symbols_to_track, close_called, pc>>
       ELSE LET feed_type   == feed_data[1]
                market_data == feed_data[2]
                tracked == IF feed_type = "Quote"
                           THEN MarkLoop(symbols_to_track, market_data, 1)
                           ELSE symbols_to_track
            IN  /\ symbols_to_track' = tracked
                /\ close_called' = TRUE /\ pc' = "closing"
    /\ UNCHANGED sent

\* the FEED_DATA branch answering every batch with a subscription message
FeedDataBranch_Resubscribes(data) ==
    LET feed_data == data.data IN
    /\ received_data' = Append(received_data, feed_data)
    /\ IF ~Unpacks(feed_data)
       THEN UNCHANGED <<symbols_to_track, close_called, pc>>
       ELSE LET feed_type   == feed_data[1]
                market_data == feed_data[2]
                tracked == IF feed_type = "Quote"
                           THEN MarkLoop(symbols_to_track, market_data, 1)
                           ELSE symbols_to_track
            IN  /\ symbols_to_track' = tracked
                /\ IF check_all_data_received(tracked)
                   THEN close_called' = TRUE /\ pc' = "closing"
                   ELSE UNCHANGED <<close_called, pc>>
    /\ sent' = Append(sent, FeedSubscriptionMsg(symbols_to_track))

\* the FEED_DATA branch of on_message, from the append on
FeedDataBranch(data) ==
    LET feed_data == data.data IN
    /\ received_data' = Append(received_data, feed_data)
    /\ IF ~Unpacks(feed_data)
       THEN \* the unpacking raises: the handler ends here
            UNCHANGED <<symbols_to_track, close_called, pc>>
       ELSE LET feed_type   == feed_data[1]
                market_data == feed_data[2]
                tracked == IF feed_type = "Quote"
                           THEN MarkLoop(symbols_to_track, market_data, 1)
                           ELSE symbols_to_track
            IN  /\ symbols_to_track' = tracked
                /\ IF check_all_data_received(tracked)
                   THEN close_called' = TRUE /\ pc' = "closing"
                   ELSE UNCHANGED <<close_called, pc>>
    /\ UNCHANGED sent

on_message(data) ==
    /\ pc = "open"
    /\ nmsgs < MaxMsgs
    /\ nmsgs' = nmsgs + 1
    /\ last_msg' = data
    /\ IF IsUnauthorized(data)
       THEN /\ sent' = Append(sent, AuthMsg)
            /\ UNCHANGED <<symbols_to_track, received_data, close_called, pc>>
       ELSE IF IsAuthorized(data)
       THEN /\ sent' = Append(sent, ChannelRequestMsg)
            /\ UNCHANGED <<symbols_to_track, received_data, close_called, pc>>
       ELSE IF IsChannelOpened(data)
       THEN /\ sent' = Append(sent, FeedSetupMsg)
            /\ UNCHANGED <<symbols_to_track, received_data, close_called, pc>>
       ELSE IF IsFeedConfig(data)
       THEN /\ sent' = Append(sent, FeedSubscriptionMsg(symbols_to_track))
            /\ UNCHANGED <<symbols_to_track, received_data, close_called, pc>>
       ELSE IF IsFeedData(data)
       THEN /\ Len(received_data) < MaxBatches
            /\ FeedDataBranch(data)
       ELSE UNCHANGED <<symbols_to_track, received_data, close_called, pc, sent>>
    /\ UNCHANGED <<symbols, df_parsed, parsed_data>>
    /\ UNCHANGED risk_vars

OnMessage == \E data \in InboundMsgs : on_message(data)

\* on_error discarding what was collected so far
on_error_discards ==
    /\ pc = "open"
    /\ pc' = "error"
    /\ received_data' = <<>>
    /\ UNCHANGED <<symbols, symbols_to_track, sent, close_called,
                   last_msg, nmsgs, df_parsed, parsed_data>>
    /\ UNCHANGED risk_vars

\* on_error opening the connection again
on_error_reconnects ==
    /\ pc = "open"
    /\ pc' = "tracking"
    /\ UNCHANGED <<symbols, symbols_to_track, received_data, sent, close_called,
                   last_msg, nmsgs, df_parsed, parsed_data>>
    /\ UNCHANGED risk_vars

\* the transport reports an error: on_error only prints
on_error ==
    /\ pc = "open"
    /\ pc' = "error"
    /\ UNCHANGED <<symbols, symbols_to_track, received_data, sent, close_called,
                   last_msg, nmsgs, df_parsed, parsed_data>>
    /\ UNCHANGED risk_vars

\* the connection ends (closed by the client, by the peer, or after an
\* error): on_close only prints, then run_forever returns
on_close ==
    /\ pc \in {"open", "closing", "error"}
    /\ pc' = "closed"
    /\ UNCHANGED <<symbols, symbols_to_track, received_data, sent, close_called,
                   last_msg, nmsgs, df_parsed, parsed_data>>
    /\ UNCHANGED risk_vars

\* process_market_data, line 123
ParseAfterConnect ==
    /\ pc = "closed"
    /\ IF ParseRaises(received_data)
       THEN pc' = "failed" /\ UNCHANGED <<df_parsed, parsed_data>>
       ELSE /\ pc' = "done"
            /\ parsed_data' = ParsedRows(received_data)
            /\ df_parsed' = parse_market_data(received_data)
    /\ UNCHANGED <<symbols, symbols_to_track, received_data, sent, close_called,
                   last_msg, nmsgs>>
    /\ UNCHANGED risk_vars

Next ==
    \/ set_symbols_to_track
    \/ on_open
    \/ OnMessage
    \/ on_error
    \/ on_close
    \/ ParseAfterConnect

Spec == Init /\ [][Next]_vars

\* ------------------------------------------------------------------------
\* The server answering each handshake step as the protocol prescribes
\* ------------------------------------------------------------------------
LastSentType == IF sent = <<>> THEN "None" ELSE sent[Len(sent)].type

IsReply(data) ==
    \/ LastSentType = "SETUP" /\ IsUnauthorized(data)
    \/ LastSentType = "AUTH" /\ IsAuthorized(data)
    \/ LastSentType = "CHANNEL_REQUEST" /\ IsChannelOpened(data)
    \/ LastSentType = "FEED_SETUP" /\ IsFeedConfig(data)

ServerReply == \E data \in InboundMsgs : IsReply(data) /\ on_message(data)

\* Handlers run whenever they are due and the server answers the handshake;
\* nothing obliges the server to send FEED_DATA or the transport to fail.
FairSpec ==
    /\ Init /\ [][Next]_vars
    /\ WF_vars(set_symbols_to_track)
    /\ WF_vars(on_open)
    /\ WF_vars(ServerReply)
    /\ WF_vars(pc \in {"closing", "error"} /\ on_close)
    /\ WF_vars(ParseAfterConnect)

\* ------------------------------------------------------------------------
\* parse_market_data called on its own: the argument received_data is drawn
\* from batches of up to MaxRecords full records followed by a partial
\* stride of 0..5 values, and from one payload that does not unpack.
\* ------------------------------------------------------------------------
DecoderBids == {"1", "2"}

DecoderRecords == {QuoteRecord(s, b) : s \in Symbols, b \in DecoderBids}

RECURSIVE DecoderFull(_)
DecoderFull(n) ==
    IF n = 0 THEN {<<>>}
    ELSE LET prev == DecoderFull(n - 1)
         IN  prev \cup {p \o r : p \in {q \in prev : Len(q) = Stride * (n - 1)},
                                 r \in DecoderRecords}

DecoderTails ==
    {SubSeq(QuoteRecord(s, "1"), 1, k) : s \in Symbols, k \in 0..(Stride - 1)}

DecoderPayloads ==
    {<<ft, f \o t>> : ft \in FeedTypes, f \in DecoderFull(MaxRecords), t \in DecoderTails}
    \cup {<<"Quote">>}

RECURSIVE DecoderInputs(_)
DecoderInputs(n) ==
    IF n = 0 THEN {<<>>}
    ELSE LET prev == DecoderInputs(n - 1)
         IN  prev \cup {Append(p, b) : p \in {q \in prev : Len(q) = n - 1},
                                       b \in DecoderPayloads}

DecoderInit ==
    /\ self_df = <<>> /\ original_df = <<>> /\ summary_df = {}
    /\ pc = "parse_call"
    /\ received_data \in DecoderInputs(MaxBatches)
    /\ symbols = <<>>
    /\ symbols_to_track = <<>>
    /\ sent = <<>>
    /\ close_called = FALSE
    /\ last_msg = NoMsg
    /\ nmsgs = 0
    /\ df_parsed = <<>>
    /\ parsed_data = <<>>
    /\ self_df = <<>>
    /\ original_df = <<>>
    /\ summary_df = {}

\* lines 46-59: the stride loop fills parsed_data (or the unpacking raises)
ParseLoop ==
    /\ pc = "parse_call"
    /\ IF ParseRaises(received_data)
       THEN pc' = "parse_raised" /\ UNCHANGED parsed_data
       ELSE pc' = "parse_loop_done" /\ parsed_data' = ParsedRows(received_data)
    /\ UNCHANGED <<symbols, symbols_to_track, received_data, sent, close_called,
                   last_msg, nmsgs, df_parsed>>
    /\ UNCHANGED risk_vars

\* lines 60-63: the frame is built and de-duplicated
ParseReturn ==
    /\ pc = "parse_loop_done"
    /\ pc' = "parse_returned"
    /\ df_parsed' = parse_market_data(received_data)
    /\ UNCHANGED <<symbols, symbols_to_track, received_data, sent, close_called,
                   last_msg, nmsgs, parsed_data>>
    /\ UNCHANGED risk_vars

DecoderNext == ParseLoop \/ ParseReturn

DecoderSpec == DecoderInit /\ [][DecoderNext]_vars

\* ------------------------------------------------------------------------
\* The risk pass (src/risk_fx.py, OptionDataProcessor.process) on the table
\* returned by process_market_data.
\*
\* A float is a sequence of at most one integer: NaN is the empty sequence.
\* Deltas are held in units of 10^-PRECISION_DELTA, implied volatility in
\* tenths of a percent (one decimal place).
\* ------------------------------------------------------------------------
PRECISION_DELTA == 2

NaN == <<>>
Num(x) == <<x>>
IsNaN(v) == v = NaN
One == 10 ^ PRECISION_DELTA   \* 1.0 in units of 10^-PRECISION_DELTA

\* float arithmetic: NaN propagates
Mul(a, b) == IF IsNaN(a) \/ IsNaN(b) THEN NaN ELSE Num(a[1] * b[1])
Add(a, b) == IF IsNaN(a) \/ IsNaN(b) THEN NaN ELSE Num(a[1] + b[1])
Neg(a)    == IF IsNaN(a) THEN NaN ELSE Num(0 - a[1])
Half(a)   == IF IsNaN(a) THEN NaN ELSE Num(a[1] \div 2)

\* pd.to_numeric(errors='coerce') on the values that occur in the inventory
NumericTokens == ("2" :> 2) @@ ("3" :> 3) @@ ("6" :> 6) @@ ("10" :> 10)

\* to_numeric giving 0 for what does not parse
to_numeric_ZeroOnError(v) == IF v \in DOMAIN NumericTokens THEN Num(NumericTokens[v]) ELSE Num(0)

to_numeric(v) == IF v \in DOMAIN NumericTokens THEN Num(NumericTokens[v]) ELSE NaN

\* `x in s[-10:]` on a string held as a sequence of characters
LastChars(str, n) == IF Len(str) <= n THEN str ELSE SubSeq(str, Len(str) - n + 1, Len(str))
Contains(str, c) == \E i \in 1..Len(str) : str[i] = c

option_type(row) == IF Contains(LastChars(row.symbol, 10), "C") THEN "call" ELSE "put"

\* str.extract(r'(6\w{1})')[0]: the first "6" followed by a word character
WordChars == {"A", "B", "C", "E", "J", "M", "P", "S", "6"}

ExtractCCY(str) ==
    LET hits == {i \in 1..(Len(str) - 1) : str[i] = "6" /\ str[i + 1] \in WordChars}
    IN  IF hits = {} THEN NaN
        ELSE LET i == CHOOSE h \in hits : \A g \in hits : h <= g
             IN  <<str[i], str[i + 1]>>

\* A position as process_market_data returns it.  `root` is what brentq
\* finds for this row when its inputs are numbers: a volatility (already in
\* rounded percent units), or NaN when the bracket has no sign change and
\* the ValueError is caught.  `cdf_d1` is norm.cdf(d1) at that volatility.
\* 'strike-price' is the text taken from the option chain by the left merge
\* of update_inventory, None for a symbol the chain does not list.
Strike == "1.12"
None   == "None"

Position(sym, und, kind, dir, qty, cs, bid, ask, bidf, askf, root, cdf) ==
    [symbol |-> sym, underlying_symbol |-> und, instrument_type |-> kind,
     strike_price |-> IF kind = "Future Option" THEN Strike ELSE None,
     quantity_direction |-> dir, quantity |-> qty, contract_size |-> cs,
     bidPrice |-> bid, askPrice |-> ask,
     bidPrice_future |-> bidf, askPrice_future |-> askf,
     root |-> root, cdf_d1 |-> cdf,
     mid_option |-> NaN, mid_future |-> NaN,
     implied_volatility |-> NaN, delta |-> NaN, pos_delta |-> NaN,
     bc_delta |-> NaN, CCY |-> NaN]

Call6E == <<".", "/", "6", "E", "C">>
Put6J  == <<".", "/", "6", "J", "P">>
Fut6E  == <<"/", "M", "6", "E">>
Stock  == <<"A", "B", "6">>

OptionInstruments ==
    {[symbol |-> Call6E, underlying |-> <<"/", "6", "E">>, cdf |-> Num(60)],
     [symbol |-> Put6J,  underlying |-> <<"/", "6", "J">>, cdf |-> Num(70)]}

\* (bid, ask, bid_future, ask_future, root) of an option position
OptionQuotes ==
    {<<Num(2), Num(4), Num(10), Num(12), Num(205)>>,
     <<Num(2), Num(4), Num(10), Num(12), NaN>>,
     <<NaN,    Num(4), Num(10), Num(12), Num(205)>>,
     <<Num(2), Num(4), Num(10), NaN,     Num(205)>>}

Positions ==
    {Position(i.symbol, i.underlying, "Future Option", dir, "2", "10",
              q[1], q[2], q[3], q[4], q[5], i.cdf) :
        i \in OptionInstruments, dir \in {"Long", "Short", "Zero"}, q \in OptionQuotes}
    \cup
    {Position(i.symbol, i.underlying, "Future Option", "Long", qc[1], qc[2],
              Num(2), Num(4), Num(10), Num(12), Num(205), i.cdf) :
        i \in OptionInstruments, qc \in {<<"n/a", "10">>, <<"2", "n/a">>}}
    \cup
    {Position(Fut6E, Fut6E, "Future", dir, "3", "10", NaN, NaN, Num(10), askf, NaN, NaN) :
        dir \in {"Long", "Short"}, askf \in {Num(12), NaN}}
    \cup
    {Position(Fut6E, Fut6E, "Future", "Long", qc[1], qc[2], NaN, NaN, Num(10), Num(12), NaN, NaN) :
        qc \in {<<"n/a", "10">>, <<"3", "n/a">>}}
    \cup
    {Position(Stock, Stock, "Equity", "Long", "2", "10", NaN, NaN, NaN, NaN, NaN, NaN)}
    \cup
    \* an option the chain does not list: no strike and no option quote symbol
    {[Position(i.symbol, i.underlying, "Future Option", "Long", "2", "10",
               NaN, NaN, Num(10), Num(12), Num(205), i.cdf) EXCEPT !.strike_price = None] :
        i \in OptionInstruments}

RECURSIVE Inventories(_)
Inventories(n) ==
    IF n = 0 THEN {<<>>}
    ELSE LET prev == Inventories(n - 1)
         IN  prev \cup {Append(p, r) : p \in {q \in prev : Len(q) = n - 1},
                                       r \in Positions}

MapRows(df, F(_)) == [k \in 1..Len(df) |-> F(df[k])]

\* BSM.implied_volatility on a row, then * 100 and round: a NaN price or
\* underlying makes the objective NaN and brentq raise ValueError, which is
\* caught and turned into NaN, as is the ValueError for no sign change
implied_volatility(row) ==
    IF IsNaN(row.mid_option) \/ IsNaN(row.mid_future) THEN NaN ELSE row.root

\* BSM.delta on a row, then round
delta(row) ==
    IF IsNaN(row.implied_volatility) \/ IsNaN(row.mid_future) THEN NaN
    ELSE IF option_type(row) = "call" THEN row.cdf_d1
    ELSE Add(row.cdf_d1, Num(0 - One))

\* the lambda of calculate_pos_delta
pos_delta(row) ==
    IF row.instrument_type = "Future Option" /\ row.quantity_direction = "Long"
    THEN row.delta
    ELSE IF row.instrument_type = "Future Option" /\ row.quantity_direction = "Short"
    THEN Neg(row.delta)
    ELSE Num(0)

\* the lambda of assign_pos_delta_for_futures
future_pos_delta(row) ==
    IF row.quantity_direction = "Long" THEN Num(One) ELSE Num(0 - One)

\* bc_delta without the contract size
bc_delta_NoContractSize(row) == Mul(row.pos_delta, row.quantity)

\* pos_delta * quantity * contract-size
bc_delta(row) == Mul(Mul(row.pos_delta, row.quantity), row.contract_size)

\* DataFrame.drop_duplicates(subset=['symbol']): the first row of each symbol
DropDuplicateSymbols(df) ==
    SelectSeq([k \in 1..Len(df) |-> [row |-> df[k], idx |-> k]],
              LAMBDA e : ~\E j \in 1..(e.idx - 1) : df[j].symbol = e.row.symbol)

\* Series.sum() of a group: NaN is skipped, the empty sum is 0
RECURSIVE SumSkipNaN(_)
SumSkipNaN(values) ==
    IF values = <<>> THEN 0
    ELSE (IF IsNaN(Head(values)) THEN 0 ELSE Head(values)[1]) + SumSkipNaN(Tail(values))

\* groupby('CCY')['bc_delta'].sum(): rows with a NaN key are left out
GroupSum(df) ==
    {[CCY |-> c,
      total_bc_delta |->
          SumSkipNaN(MapRows(SelectSeq(df, LAMBDA r : r.CCY = c), LAMBDA r : r.bc_delta))] :
        c \in {df[k].CCY : k \in 1..Len(df)} \ {NaN}}

RiskInit ==
    /\ pc = "risk_inventory"
    /\ self_df \in Inventories(MaxRows)
    /\ original_df = <<>>
    /\ summary_df = {}
    /\ symbols = <<>>
    /\ symbols_to_track = <<>>
    /\ received_data = <<>>
    /\ sent = <<>>
    /\ close_called = FALSE
    /\ last_msg = NoMsg
    /\ nmsgs = 0
    /\ df_parsed = <<>>
    /\ parsed_data = <<>>

\* websocket_streamer.py, calculate_mid_prices
calculate_mid_prices ==
    /\ pc = "risk_inventory"
    /\ self_df' = MapRows(self_df, LAMBDA r :
          [r EXCEPT !.mid_option = Half(Add(r.bidPrice, r.askPrice)),
                    !.mid_future = Half(Add(r.bidPrice_future, r.askPrice_future))])
    /\ pc' = "risk_start"
    /\ UNCHANGED <<original_df, summary_df>>
    /\ UNCHANGED stream_vars

\* process, step 1: original_df = self.df.copy(); filter_instrument_type
filter_instrument_type ==
    /\ pc = "risk_start"
    /\ original_df' = self_df
    /\ self_df' = SelectSeq(self_df, LAMBDA r : r.instrument_type = "Future Option")
    /\ pc' = "risk_filtered"
    /\ UNCHANGED summary_df
    /\ UNCHANGED stream_vars

\* float(row['strike-price']) is evaluated in the lambda, outside the try of
\* BSM.implied_volatility: float(None) raises TypeError
FloatRaises(v) == v = None

\* A row whose strike is None makes the lambda raise and the pass end there.
\* With no option row, DataFrame.apply(axis=1) yields an empty frame and the
\* column assignment either raises or leaves an empty column, depending on
\* the pandas release: both outcomes are kept.
calculate_implied_volatility ==
    /\ pc = "risk_filtered"
    /\ IF \E k \in 1..Len(self_df) : FloatRaises(self_df[k].strike_price)
       THEN /\ pc' = "risk_failed"
            /\ UNCHANGED self_df
       ELSE /\ self_df' = MapRows(self_df, LAMBDA r :
                  [r EXCEPT !.implied_volatility = implied_volatility(r)])
            /\ \/ pc' = "risk_iv"
               \/ self_df = <<>> /\ pc' = "risk_failed"
    /\ UNCHANGED <<original_df, summary_df>>
    /\ UNCHANGED stream_vars

calculate_delta ==
    /\ pc = "risk_iv"
    /\ self_df' = MapRows(self_df, LAMBDA r : [r EXCEPT !.delta = delta(r)])
    /\ pc' = "risk_delta"
    /\ UNCHANGED <<original_df, summary_df>>
    /\ UNCHANGED stream_vars

calculate_pos_delta ==
    /\ pc = "risk_delta"
    /\ self_df' = MapRows(self_df, LAMBDA r : [r EXCEPT !.pos_delta = pos_delta(r)])
    /\ pc' = "risk_pos_delta"
    /\ UNCHANGED <<original_df, summary_df>>
    /\ UNCHANGED stream_vars

\* process, steps 3 and 5: processed_df = merge_with_original(original_df),
\* which becomes self.df
merge_with_original ==
    /\ pc = "risk_pos_delta"
    /\ LET kept == DropDuplicateSymbols(self_df \o original_df)
       IN  self_df' = [k \in 1..Len(kept) |-> kept[k].row]
    /\ pc' = "risk_merged"
    /\ UNCHANGED <<original_df, summary_df>>
    /\ UNCHANGED stream_vars

assign_pos_delta_for_futures ==
    /\ pc = "risk_merged"
    /\ self_df' = MapRows(self_df, LAMBDA r :
          IF r.instrument_type = "Future"
          THEN [r EXCEPT !.pos_delta = future_pos_delta(r)]
          ELSE r)
    /\ pc' = "risk_futures"
    /\ UNCHANGED <<original_df, summary_df>>
    /\ UNCHANGED stream_vars

calculate_bc_delta ==
    /\ pc = "risk_futures"
    /\ self_df' = MapRows(self_df, LAMBDA r :
          LET n == [r EXCEPT !.quantity = to_numeric(r.quantity),
                             !.contract_size = to_numeric(r.contract_size)]
          IN  [n EXCEPT !.bc_delta = bc_delta(n)])
    /\ pc' = "risk_bc_delta"
    /\ UNCHANGED <<original_df, summary_df>>
    /\ UNCHANGED stream_vars

assign_ccy ==
    /\ pc = "risk_bc_delta"
    /\ self_df' = MapRows(self_df, LAMBDA r :
          [r EXCEPT !.CCY = ExtractCCY(r.underlying_symbol)])
    /\ pc' = "risk_ccy"
    /\ UNCHANGED <<original_df, summary_df>>
    /\ UNCHANGED stream_vars

summarize_bc_delta_by_ccy ==
    /\ pc = "risk_ccy"
    /\ summary_df' = GroupSum(self_df)
    /\ pc' = "risk_done"
    /\ UNCHANGED <<self_df, original_df>>
    /\ UNCHANGED stream_vars

RiskNext ==
    \/ calculate_mid_prices
    \/ filter_instrument_type
    \/ calculate_implied_volatility
    \/ calculate_delta
    \/ calculate_pos_delta
    \/ merge_with_original
    \/ assign_pos_delta_for_futures
    \/ calculate_bc_delta
    \/ assign_ccy
    \/ summarize_bc_delta_by_ccy

RiskSpec == RiskInit /\ [][RiskNext]_vars

\* ------------------------------------------------------------------------
\* The join of the decoded quotes onto the inventory
\* (process_market_data, lines 123-128), after the connection has ended.
\* ------------------------------------------------------------------------
MergeRecord(sym, bid, ask) == <<"Quote", sym, bid, ask, "5", "5">>

MergePayloads ==
    {<<"Quote", MergeRecord(s, b, a)>> :
        s \in Symbols, b \in {"2", "n/a"}, a \in {"6", "n/a"}}
    \cup {<<"Quote">>}

RECURSIVE MergeInputs(_)
MergeInputs(n) ==
    IF n = 0 THEN {<<>>}
    ELSE LET prev == MergeInputs(n - 1)
         IN  prev \cup {Append(p, b) : p \in {q \in prev : Len(q) = n - 1},
                                       b \in MergePayloads}

\* a row of fx_positions after drop_existing_columns: the position and its
\* two quote symbols, the quote columns not filled yet
InventoryRow(kind, sym, ss, oss) ==
    [streamer_symbol |-> ss, option_streamer_symbol |-> oss]
    @@ Position(sym, sym, kind, "Long", "2", "10", NaN, NaN, NaN, NaN, NaN, NaN)

InventoryRows ==
    {InventoryRow("Future Option", Call6E, ss, oss) :
        ss \in Symbols, oss \in Symbols \cup {None}}
    \cup {InventoryRow("Future", Fut6E, ss, None) : ss \in Symbols}

RECURSIVE MergeInventories(_)
MergeInventories(n) ==
    IF n = 0 THEN {<<>>}
    ELSE LET prev == MergeInventories(n - 1)
         IN  prev \cup {Append(p, r) : p \in {q \in prev : Len(q) = n - 1},
                                       r \in InventoryRows}

\* columns 'bidPrice' and 'askPrice' of a parsed row
BidPrice(row) == row[4]
AskPrice(row) == row[5]

JoinKey(r, leg) == IF leg = "option" THEN r.option_streamer_symbol ELSE r.streamer_symbol

SetLeg(r, leg, bid, ask) ==
    IF leg = "option"
    THEN [r EXCEPT !.bidPrice = bid, !.askPrice = ask]
    ELSE [r EXCEPT !.bidPrice_future = bid, !.askPrice_future = ask]

\* DataFrame.merge(how='left'): every left row once per matching right row,
\* and once with missing values when no right row matches
RECURSIVE LeftJoin(_, _, _)
LeftJoin(df, parsed, leg) ==
    IF df = <<>> THEN <<>>
    ELSE LET r  == Head(df)
             ms == SelectSeq(parsed, LAMBDA q : StreamerSymbol(q) = JoinKey(r, leg))
         IN  (IF ms = <<>> THEN <<SetLeg(r, leg, NaN, NaN)>>
              ELSE [k \in 1..Len(ms) |->
                       SetLeg(r, leg, <<BidPrice(ms[k])>>, <<AskPrice(ms[k])>>)])
             \o LeftJoin(Tail(df), parsed, leg)

\* pd.to_numeric(errors='coerce') on a cell that holds a token or is missing
NumericCell(v) == IF IsNaN(v) THEN NaN ELSE to_numeric(v[1])

\* the connection has ended with some batches received; fx_positions holds
\* the inventory
MergeInit ==
    /\ pc = "closed"
    /\ received_data \in MergeInputs(MaxBatches)
    /\ self_df \in MergeInventories(MaxRows)
    /\ original_df = <<>>
    /\ summary_df = {}
    /\ symbols = <<>>
    /\ symbols_to_track = <<>>
    /\ sent = <<>>
    /\ close_called = FALSE
    /\ last_msg = NoMsg
    /\ nmsgs = 0
    /\ df_parsed = <<>>
    /\ parsed_data = <<>>

merge_data ==
    /\ pc = "done"
    /\ self_df' = LeftJoin(LeftJoin(self_df, df_parsed, "option"), df_parsed, "future")
    /\ pc' = "merged"
    /\ UNCHANGED <<original_df, summary_df>>
    /\ UNCHANGED stream_vars

convert_columns_to_numeric ==
    /\ pc = "merged"
    /\ self_df' = MapRows(self_df, LAMBDA r :
          [r EXCEPT !.bidPrice = NumericCell(r.bidPrice),
                    !.askPrice = NumericCell(r.askPrice),
                    !.bidPrice_future = NumericCell(r.bidPrice_future),
                    !.askPrice_future = NumericCell(r.askPrice_future)])
    /\ pc' = "risk_inventory"
    /\ UNCHANGED <<original_df, summary_df>>
    /\ UNCHANGED stream_vars

MergeNext ==
    \/ ParseAfterConnect
    \/ merge_data
    \/ convert_columns_to_numeric
    \/ calculate_mid_prices

MergeSpec == MergeInit /\ [][MergeNext]_vars

\* ------------------------------------------------------------------------
\* Properties
\* ------------------------------------------------------------------------
Requested == {symbols[k] : k \in 1..Len(symbols)}

AllReceived == check_all_data_received(symbols_to_track)

\* symbols in a symbol position (1, 7, 13, ...) of a Quote batch of `data`
MarkedSymbols(data) ==
    {s \in Symbols :
        \E k \in 1..Len(data) :
            /\ Unpacks(data[k])
            /\ data[k][1] = "Quote"
            /\ \E i \in 0..(Len(data[k][2]) - 1) :
                  i % Stride = 1 /\ At(data[k][2], i) = s}

SentTypes == [k \in 1..Len(sent) |-> sent[k].type]

CountSent(t) == Cardinality({k \in 1..Len(sent) : sent[k].type = t})

MessageStep == nmsgs' = nmsgs + 1

\* C1: once the symbols are set, check_all_data_received() is true exactly
\* in the states where every requested symbol has been reported in a symbol
\* position of a Quote batch received on the owned channel: false while one
\* is outstanding, true from the batch that reports the last one, and true
\* at once for the empty request.
C1_CompleteIffAllMarked ==
    pc # "new" =>
        (AllReceived <=> \A s \in Requested : s \in MarkedSymbols(received_data))

C1_Witness ==
    /\ Cardinality(Requested) = 2
    /\ Len(received_data) = 2
    /\ AllReceived
    /\ \E s \in Requested : s \notin MarkedSymbols(SubSeq(received_data, 1, 1))

\* C2: the FEED_DATA message on the owned channel whose handling makes the
\* last flag true has close initiated within the same handling, and a
\* FEED_DATA message that leaves a flag false does not initiate close.
C2_CloseWithCompletingBatch ==
    [][(MessageStep /\ IsFeedData(last_msg')) =>
          /\ (~AllReceived /\ AllReceived') => (~close_called /\ close_called')
          /\ ~AllReceived' => ~close_called']_vars

C2_Witness ==
    /\ close_called
    /\ pc = "closing"
    /\ DictKeys(symbols_to_track) = <<"A", "B">>
    /\ Len(received_data) = 2
    /\ MarkedSymbols(SubSeq(received_data, 1, 1)) = {"A"}
    /\ MarkedSymbols(SubSeq(received_data, 2, 2)) = {"B"}

\* C3: whenever the client has initiated close every flag is true, and the
\* only step that initiates close is the handling of a FEED_DATA message on
\* the owned channel (no other message, no error, no close event).
C3_CloseOnlyWhenComplete ==
    /\ [](close_called => AllReceived)
    /\ [][(~close_called /\ close_called') =>
             (MessageStep /\ IsFeedData(last_msg'))]_vars

C3_Witness ==
    /\ close_called
    /\ Len(symbols_to_track) = 1
    /\ Len(received_data) = 2
    /\ MarkedSymbols(SubSeq(received_data, 1, 1)) \cap Requested = {}

HandshakeOrder ==
    <<"SETUP", "AUTH", "CHANNEL_REQUEST", "FEED_SETUP", "FEED_SUBSCRIPTION">>

\* C4: with an empty requested set the client reaches the point where it
\* initiates close in every run, also when no FEED_DATA ever arrives; stated
\* here of the runs in which the handshake went through in order and the
\* transport stays up.  (After FEED_SUBSCRIPTION the client is blocked in
\* run_forever: the code has no timer and acts only on an inbound message,
\* and the server owes none for an empty subscription.)
C4_EmptySetCloses ==
    [](pc = "open" /\ symbols_to_track = <<>> /\ SentTypes = HandshakeOrder
          => <>(close_called \/ pc \in {"error", "closed", "done", "failed"}))

\* C5: the client sends at most one AUTH message in a session.
C5_AuthAtMostOnce == CountSent("AUTH") <= 1

\* C6: the outbound messages of a session form a prefix of
\* SETUP, AUTH, CHANNEL_REQUEST, FEED_SETUP, FEED_SUBSCRIPTION.
C6_OutboundIsHandshakePrefix ==
    /\ Len(sent) <= Len(HandshakeOrder)
    /\ SentTypes = SubSeq(HandshakeOrder, 1, Len(sent))

\* C7: every FEED_SUBSCRIPTION sent is on the owned channel, has reset set,
\* and its add-list holds one Quote entry per requested symbol, each symbol
\* once and no other symbol.
C7_SubscriptionListsRequested ==
    \A k \in 1..Len(sent) :
        sent[k].type = "FEED_SUBSCRIPTION" =>
            /\ sent[k].channel = channel_number
            /\ sent[k].reset = TRUE
            /\ \A i \in 1..Len(sent[k].add) : sent[k].add[i].type = "Quote"
            /\ {sent[k].add[i].symbol : i \in 1..Len(sent[k].add)} = Requested
            /\ Len(sent[k].add) = Cardinality(Requested)

C7_Witness ==
    /\ CountSent("FEED_SUBSCRIPTION") = 1
    /\ Len(symbols) = 2
    /\ symbols[1] = symbols[2]

\* C8: each of CHANNEL_REQUEST, FEED_SETUP and FEED_SUBSCRIPTION is sent at
\* most once in a session.
C8_NoStepRepeated ==
    \A t \in {"CHANNEL_REQUEST", "FEED_SETUP", "FEED_SUBSCRIPTION"} :
        CountSent(t) <= 1

\* C9: handling a CHANNEL_OPENED, FEED_CONFIG or FEED_DATA message of a
\* channel other than the owned one sends nothing, leaves received_data and
\* the flags unchanged and does not initiate close.
C9_OtherChannelIgnored ==
    [][(/\ MessageStep
        /\ last_msg'.type \in {"CHANNEL_OPENED", "FEED_CONFIG", "FEED_DATA"}
        /\ last_msg'.channel # channel_number)
          => UNCHANGED <<sent, received_data, symbols_to_track, close_called>>]_vars

C9_Witness ==
    /\ last_msg.type = "FEED_DATA"
    /\ last_msg.channel # channel_number
    /\ ~AllReceived
    /\ Cardinality(Requested) = 2
    /\ Requested \subseteq MarkedSymbols(<<last_msg.data>>)
    /\ received_data = <<>>

\* C10: a malformed or unexpected inbound message sends nothing, leaves
\* received_data and the flags unchanged, and makes neither the session nor
\* the decoding of the collected data fail.
Malformed(data) ==
    \/ data.type \notin {"AUTH_STATE", "CHANNEL_OPENED", "FEED_CONFIG", "FEED_DATA"}
    \/ data.type = "AUTH_STATE" /\ data.state \notin {"UNAUTHORIZED", "AUTHORIZED"}
    \/ IsFeedData(data) /\ ~Unpacks(data.data)

C10_MalformedNotFatal ==
    /\ [][(MessageStep /\ Malformed(last_msg'))
            => UNCHANGED <<sent, received_data, symbols_to_track>>]_vars
    /\ [](pc # "failed")

Ended == {"error", "closed", "done", "failed"}

C12_NoRetry ==
    /\ [](CountSent("SETUP") <= 1)
    /\ [][(pc \in Ended) => (sent' = sent /\ pc' \in Ended)]_vars

C12_Witness ==
    /\ pc = "closed"
    /\ ~close_called
    /\ SentTypes = <<"SETUP", "AUTH">>
    /\ nmsgs = 1

\* rows k of the flat list cut in strides, in closed form
StrideRows(feed_type, market_data) ==
    [k \in 1..(Len(market_data) \div Stride) |->
        <<feed_type>> \o SubSeq(market_data, Stride * (k - 1) + 1, Stride * k)]

RECURSIVE ConcatStrideRows(_)
ConcatStrideRows(data) ==
    IF data = <<>> THEN <<>>
    ELSE StrideRows(Head(data)[1], Head(data)[2]) \o ConcatStrideRows(Tail(data))

\* C13: a flat list of n values decodes into floor(n/6) records, record k
\* being the feed-kind tag followed by the values 6k..6k+5 in order; the
\* n mod 6 trailing values are dropped and a length that is not a multiple
\* of 6 raises nothing (only a payload that is not a pair raises).
C13_StrideDecoding ==
    /\ (pc \in {"parse_loop_done", "parse_returned"}) =>
          parsed_data = ConcatStrideRows(received_data)
    /\ (pc = "parse_raised") => \E k \in 1..Len(received_data) : Len(received_data[k]) # 2

C13_Witness ==
    /\ pc = "parse_returned"
    /\ Len(received_data) = 2
    /\ Len(received_data[1][2]) = Stride + 5
    /\ Len(received_data[2][2]) = 3
    /\ Len(parsed_data) = 1

RowsWithSymbol(rows, s) == {k \in 1..Len(rows) : StreamerSymbol(rows[k]) = s}

SetMax(S) == CHOOSE m \in S : \A x \in S : x <= m

TrackedKeys == {symbols_to_track[i].symbol : i \in 1..Len(symbols_to_track)}

\* C15: the keys of symbols_to_track are the requested symbols throughout
\* the session, and a FEED_DATA batch sets exactly the flags of the
\* requested symbols it reports: a quote for a symbol outside the set adds
\* no key and changes no flag.
C15_MarkOnlyRequested ==
    /\ [](pc # "new" => /\ TrackedKeys = Requested
                        /\ Len(symbols_to_track) = Cardinality(Requested))
    /\ [][(MessageStep /\ IsFeedData(last_msg') /\ Unpacks(last_msg'.data)) =>
            \A i \in 1..Len(symbols_to_track) :
                /\ symbols_to_track'[i].symbol = symbols_to_track[i].symbol
                /\ symbols_to_track'[i].received =
                      (\/ symbols_to_track[i].received
                       \/ symbols_to_track[i].symbol \in MarkedSymbols(<<last_msg'.data>>))]_vars

C15_Witness ==
    /\ Requested = {"A"}
    /\ Len(received_data) = 1
    /\ MarkedSymbols(received_data) = {"B"}
    /\ ~AllReceived
    /\ pc = "open"

\* C16: when the session has closed on completion, the decoded set holds
\* exactly one record for every requested symbol.
C16_CompleteSnapshot ==
    (pc = "done" /\ close_called) =>
        \A s \in Requested : Cardinality(RowsWithSymbol(df_parsed, s)) = 1

\* C17: if the handshake completes, the transport does not fail and for
\* every requested symbol a Quote batch carrying it is delivered on the
\* owned channel, then the client eventually initiates close.
C17_DataArrivesThenClose ==
    \A S \in SUBSET Symbols :
        (/\ <>(pc = "open" /\ Requested = S /\ SentTypes = HandshakeOrder)
         /\ \A s \in S : <>(s \in MarkedSymbols(received_data))
         /\ [](pc # "error")
         /\ [](pc = "closed" => close_called))
        => <>close_called

\* ------------------------------------------------------------------------
\* Properties of the risk pass
\* ------------------------------------------------------------------------
RowsOf(df) == {df[k] : k \in 1..Len(df)}

RowsWithCCY(df, c) == {k \in 1..Len(df) : df[k].CCY = c}

\* a leg of the row has no bid or no ask
Unpriced(r) ==
    \/ IsNaN(r.bidPrice_future) \/ IsNaN(r.askPrice_future)
    \/ r.instrument_type = "Future Option" /\ (IsNaN(r.bidPrice) \/ IsNaN(r.askPrice))

\* the inventory row a row of the processed table comes from
SourceRow(r) ==
    original_df[CHOOSE k \in 1..Len(original_df) :
                   /\ original_df[k].symbol = r.symbol
                   /\ \A j \in 1..(k - 1) : original_df[j].symbol # r.symbol]

NumericStrings == {"2", "3", "10"}

\* pos_delta * quantity * contract_size of a processed row, where all three
\* are present
Exposure(r) ==
    IF IsNaN(r.pos_delta) \/ IsNaN(r.quantity) \/ IsNaN(r.contract_size) THEN NaN
    ELSE Num(r.pos_delta[1] * r.quantity[1] * r.contract_size[1])

RECURSIVE ExposureTotal(_, _)
ExposureTotal(df, ks) ==
    IF ks = {} THEN 0
    ELSE LET k == CHOOSE x \in ks : TRUE
         IN  (IF IsNaN(Exposure(df[k])) THEN 0 ELSE Exposure(df[k])[1])
             + ExposureTotal(df, ks \ {k})

\* C18: a row of any instrument kind with a missing bid or ask on one of its
\* legs has a missing mid, a missing implied volatility and a missing delta
\* and contributes nothing to any currency total, and no currency whose rows
\* are all unpriced appears in the summary with total 0.
C18_UnpricedExcluded ==
    pc = "risk_done" =>
        /\ \A r \in RowsOf(self_df) :
              Unpriced(r) =>
                  /\ IsNaN(r.mid_option) \/ IsNaN(r.mid_future)
                  /\ IsNaN(r.implied_volatility)
                  /\ IsNaN(r.delta)
                  /\ IsNaN(r.bc_delta)
        /\ \A e \in summary_df :
              ~(/\ \A k \in RowsWithCCY(self_df, e.CCY) : Unpriced(self_df[k])
                /\ e.total_bc_delta = 0)

\* C19: the summary has exactly one row per distinct currency code present
\* in the rows; the total of a currency is the sum of pos_delta * quantity *
\* contract_size over its rows whose bc_delta is present; a row whose
\* quantity or contract size is non-numeric has a missing bc_delta.
C19_SummaryIsSumPerCurrency ==
    pc = "risk_done" =>
        /\ {e.CCY : e \in summary_df} = {r.CCY : r \in RowsOf(self_df)} \ {NaN}
        /\ \A e, f \in summary_df : e.CCY = f.CCY => e = f
        /\ \A r \in RowsOf(self_df) :
              /\ r.bc_delta = Exposure(r)
              /\ (\/ SourceRow(r).quantity \notin NumericStrings
                  \/ SourceRow(r).contract_size \notin NumericStrings)
                 => IsNaN(r.bc_delta)
        /\ \A e \in summary_df :
              e.total_bc_delta = ExposureTotal(self_df, RowsWithCCY(self_df, e.CCY))

\* two positions of one currency with exposures of opposite sign are netted
C19_Witness ==
    /\ pc = "risk_done"
    /\ \E e \in summary_df :
          /\ e.total_bc_delta # 0
          /\ \E j, k \in RowsWithCCY(self_df, e.CCY) :
                /\ ~IsNaN(self_df[j].bc_delta) /\ self_df[j].bc_delta[1] > 0
                /\ ~IsNaN(self_df[k].bc_delta) /\ self_df[k].bc_delta[1] < 0
                /\ e.total_bc_delta = self_df[j].bc_delta[1] + self_df[k].bc_delta[1]

\* C20: in the processed table a Future Option row has pos_delta = delta if
\* Long and -delta if Short, a Future row has +1 if Long and -1 if Short, and
\* a row of any other instrument kind, or an option row whose direction is
\* neither Long nor Short, has 0.
C20_PosDeltaByKindAndDirection ==
    pc \in {"risk_futures", "risk_bc_delta", "risk_ccy", "risk_done"} =>
        \A r \in RowsOf(self_df) :
            r.pos_delta =
                CASE r.instrument_type = "Future Option" /\ r.quantity_direction = "Long"
                        -> r.delta
                  [] r.instrument_type = "Future Option" /\ r.quantity_direction = "Short"
                        -> Neg(r.delta)
                  [] r.instrument_type = "Future" /\ r.quantity_direction = "Long"
                        -> Num(One)
                  [] r.instrument_type = "Future" /\ r.quantity_direction = "Short"
                        -> Num(0 - One)
                  [] OTHER -> Num(0)

\* ------------------------------------------------------------------------
\* Further properties of the session
\* ------------------------------------------------------------------------
\* C23: handling one inbound message sends at most one outbound message,
\* whatever the message is, and a FEED_DATA message sends none.
C23_AtMostOneReply ==
    [][MessageStep =>
          /\ \/ sent' = sent
             \/ \E m \in {AuthMsg, ChannelRequestMsg, FeedSetupMsg,
                          FeedSubscriptionMsg(symbols_to_track)} :
                   sent' = Append(sent, m)
          /\ last_msg'.type = "FEED_DATA" => sent' = sent]_vars

\* two messages were handled, one handshake step answered with one message
\* and a FEED_DATA batch taken without any
C23_Witness ==
    /\ nmsgs = 2
    /\ Len(sent) = 2
    /\ last_msg.type = "FEED_DATA"
    /\ Len(received_data) = 1

Flagged(d) == {d[i].symbol : i \in {k \in 1..Len(d) : d[k].received}}

\* C24: within a session a received flag that is true is never reset by a
\* later inbound message, error or close event, so once
\* check_all_data_received() is true it stays true.
C24_FlagsMonotone ==
    [][pc # "new" =>
          /\ Flagged(symbols_to_track) \subseteq Flagged(symbols_to_track')
          /\ AllReceived => AllReceived']_vars

\* a symbol flagged by the first batch is still flagged after a second batch
\* that reports it again, while another symbol is outstanding
C24_Witness ==
    /\ Len(received_data) = 2
    /\ ~AllReceived
    /\ \E s \in Requested :
          /\ s \in MarkedSymbols(<<received_data[1]>>)
          /\ s \in MarkedSymbols(<<received_data[2]>>)
          /\ s \in Flagged(symbols_to_track)

\* C25: in every reachable state a requested symbol for which
\* parse_market_data(received_data) yields a record has its received flag
\* set, whatever the feed-kind tag of the batch that carried the record.
C25_DecodedImpliesFlagged ==
    (pc # "new" /\ ~ParseRaises(received_data)) =>
        \A s \in Requested :
            RowsWithSymbol(parse_market_data(received_data), s) # {}
                => s \in Flagged(symbols_to_track)

\* ------------------------------------------------------------------------
\* Further properties of the risk pass
\* ------------------------------------------------------------------------
IsOption(r) == r.instrument_type = "Future Option"

\* the implied volatility of the row cannot be solved: no sign change in the
\* bracket, or an input that is no price
SolverFails(r) ==
    /\ IsOption(r)
    /\ \/ IsNaN(r.root)
       \/ IsNaN(r.mid_option) \/ IsNaN(r.mid_future)
       \/ r.strike_price = None

\* C22: when the root-finder fails on a row (no sign change, or unpriceable
\* inputs), that row's implied volatility and delta are missing, no error
\* leaves the pass, and the implied volatility, delta, pos_delta and bc_delta
\* of every other row and the currency summary are still computed.
C22_SolverFailureContained ==
    (\E r \in RowsOf(original_df) : SolverFails(r)) =>
        /\ pc # "risk_failed"
        /\ pc = "risk_done" =>
              /\ \A r \in RowsOf(self_df) :
                    IsOption(r) =>
                        IF SolverFails(r)
                        THEN IsNaN(r.implied_volatility) /\ IsNaN(r.delta)
                        ELSE /\ r.implied_volatility = r.root
                             /\ ~IsNaN(r.delta)
                             /\ r.pos_delta = pos_delta(r)
                             /\ r.bc_delta = Exposure(r)
              /\ summary_df = GroupSum(self_df)

\* ------------------------------------------------------------------------
\* Properties of the join
\* ------------------------------------------------------------------------
Matches(key) == RowsWithSymbol(df_parsed, key)

PriceStrings == {"2", "6"}

\* one leg of a merged row: its join key, bid, ask and mid
LegAsClaimed(key, bid, ask, mid) ==
    /\ Matches(key) = {} => IsNaN(bid) /\ IsNaN(ask)
    /\ \A k \in Matches(key) :
          /\ IsNaN(bid) <=> BidPrice(df_parsed[k]) \notin PriceStrings
          /\ IsNaN(ask) <=> AskPrice(df_parsed[k]) \notin PriceStrings
    /\ bid # Num(0) /\ ask # Num(0)
    /\ IsNaN(mid) <=> (IsNaN(bid) \/ IsNaN(ask))
    /\ ~IsNaN(mid) => 2 * mid[1] = bid[1] + ask[1]

\* C21: in the merged inventory a leg whose quote symbol matches no decoded
\* quote has a missing bid and ask, never zero; a bid or ask that does not
\* parse as a number is missing; each leg's mid is (bid + ask) / 2 when both
\* sides are present and missing exactly when a side of that leg is missing,
\* whatever the other leg holds.
C21_MergedLegs ==
    pc = "risk_start" =>
        \A r \in RowsOf(self_df) :
            /\ LegAsClaimed(r.option_streamer_symbol, r.bidPrice, r.askPrice, r.mid_option)
            /\ LegAsClaimed(r.streamer_symbol, r.bidPrice_future, r.askPrice_future,
                            r.mid_future)

\* a row with a priced option leg whose future leg was quoted with an ask
\* that is no number: mid_option present, mid_future missing
C21_Witness ==
    /\ pc = "risk_start"
    /\ \E r \in RowsOf(self_df) :
          /\ ~IsNaN(r.mid_option)
          /\ Matches(r.streamer_symbol) # {}
          /\ ~IsNaN(r.bidPrice_future) /\ IsNaN(r.askPrice_future)
          /\ IsNaN(r.mid_future)

\* C26: the decoded quote set holds at most one record per streamer-symbol,
\* and the two left joins give exactly one merged row per inventory row, in
\* the same order, for every inventory and every sequence of batches.
C26_JoinKeepsRows ==
    [][(pc = "done" /\ pc' = "merged") =>
          /\ \A s \in Symbols : Cardinality(RowsWithSymbol(df_parsed, s)) <= 1
          /\ Len(self_df') = Len(self_df)
          /\ \A k \in 1..Len(self_df) :
                /\ self_df'[k].symbol = self_df[k].symbol
                /\ self_df'[k].streamer_symbol = self_df[k].streamer_symbol
                /\ self_df'[k].option_streamer_symbol = self_df[k].option_streamer_symbol]_vars

\* two positions joined with quotes of a symbol that was reported twice
C26_Witness ==
    /\ pc = "merged"
    /\ Len(self_df) = 2
    /\ \E s \in Symbols :
          /\ Cardinality(RowsWithSymbol(ParsedRows(received_data), s)) = 2
          /\ \E k \in 1..Len(self_df) :
                self_df[k].streamer_symbol = s /\ ~IsNaN(self_df[k].bidPrice_future)

====
